---- MODULE Spec2Model ----
(***************************************************************************)
(* Model of the ZipFiles extension (src/src/extension.ts): one run of      *)
(* handleZipFilesCommand over a small file system.  Discovery expands the  *)
(* selected roots, combineFileContents reads every listed file through     *)
(* Promise.all, and copyToClipboardAndNotifyUser delivers the result.      *)
(*                                                                         *)
(* A path is a record [dir, base, ext]: the directory segments, the file   *)
(* name without extension and the extension with its dot ("" for a         *)
(* directory).  A text is a sequence of string tokens.                     *)
(***************************************************************************)
EXTENDS Integers, Sequences, FiniteSets, TLC

\* ---------------------------------------------------------------- bounds
\* Longest list of selected roots the command is run with.
MaxRoots == 2
\* Longest file list a selected run may build.
MaxFiles == 5
\* Longest list of workspace folders a relative path is computed against.
MaxFolders == 2

\* ------------------------------------------------------- sequence helpers
Range(s) == {s[i] : i \in 1..Len(s)}

IsPrefix(s, t) == Len(s) <= Len(t) /\ SubSeq(t, 1, Len(s)) = s

RECURSIVE Flatten(_)
Flatten(ss) == IF ss = <<>> THEN <<>> ELSE Head(ss) \o Flatten(Tail(ss))

SeqsUpTo(S, n) == UNION {[1..k -> S] : k \in 1..n}

\* Length of the longest common prefix of two sequences.
RECURSIVE CommonPrefixLen(_, _)
CommonPrefixLen(s, t) ==
  IF s = <<>> \/ t = <<>> \/ Head(s) # Head(t) THEN 0
  ELSE 1 + CommonPrefixLen(Tail(s), Tail(t))

NoDuplicates(s) == \A i, j \in 1..Len(s) : i # j => s[i] # s[j]

\* ------------------------------------------------------------ file system
P(d, b, e) == [dir |-> d, base |-> b, ext |-> e]

FileX == P(<<"w", "a">>, "x", ".ts")
FileY == P(<<"w", "a", "sub">>, "y", ".md")
FileZ == P(<<"w", "a", "dist">>, "z", ".ts")
FileU == P(<<"w", "a", "sub">>, "u", ".TS")
DirA == P(<<"w">>, "a", "")
DirSub == P(<<"w", "a">>, "sub", "")
Missing == P(<<"w">>, "gone", "")

\* The files on disk, in the order a directory walk meets them.
FsListing == <<FileX, FileZ, FileY, FileU>>
FsDirs == {DirA, DirSub}

\* Roots the user may select: directories (one inside the other), files
\* that lie inside a directory root, and a path that does not exist.
RootChoices == {DirA, DirSub, FileX, FileU, Missing}

\* fs.stat: "dir", "file", or "ENOENT" when the call rejects.
Stat(p) ==
  IF p \in FsDirs THEN "dir"
  ELSE IF p \in Range(FsListing) THEN "file"
  ELSE "ENOENT"

\* fs.readFile(path, "utf8") of a readable file: text with surrounding
\* whitespace, text with inner whitespace, whitespace only, and text whose
\* first line looks like a filename comment.
Content(p) ==
  IF p = FileX THEN <<" ", "a", "\n">>
  ELSE IF p = FileY THEN <<"b", " ", "b">>
  ELSE IF p = FileZ THEN <<"\n", " ">>
  ELSE <<"// ", "q", "\n", "r", "\n">>

\* Segments of the absolute path of p.
Segments(p) == Append(p.dir, p.base)

\* The absolute path as text: "/w/a/x.ts" is "/", "w", "/", "a", "/", "x", ".ts".
RECURSIVE JoinSegments(_)
JoinSegments(segs) ==
  IF segs = <<>> THEN <<>> ELSE <<"/", Head(segs)>> \o JoinSegments(Tail(segs))

FsPath(p) == JoinSegments(Segments(p)) \o (IF p.ext = "" THEN <<>> ELSE <<p.ext>>)

\* The characters of a name of the file system; the other names are one
\* character long.
Chars(name) ==
  CASE name = "ab" -> <<"a", "b">>
    [] name = "sub" -> <<"s", "u", "b">>
    [] name = "dist" -> <<"d", "i", "s", "t">>
    [] name = "gone" -> <<"g", "o", "n", "e">>
    [] name = ".ts" -> <<".", "t", "s">>
    [] name = ".TS" -> <<".", "T", "S">>
    [] name = ".md" -> <<".", "m", "d">>
    [] OTHER -> <<name>>

\* A text spelled out character by character.
RECURSIVE Spell(_)
Spell(t) == IF t = <<>> THEN <<>> ELSE Chars(Head(t)) \o Spell(Tail(t))

\* String.prototype.startsWith on two paths.
StartsWith(f, folder) == IsPrefix(Spell(FsPath(folder)), Spell(FsPath(f)))

\* ---------------------------------------------------------- configuration
ExtPattern(exts) == [kind |-> "ext", exts |-> exts, name |-> ""]
DirPattern(name) == [kind |-> "dir", exts |-> {}, name |-> name]

\* "**/*.ts", "**/*.{ts,md}", "**/*.md", "**/*.xyz", "**/dist/**"
PatTs == ExtPattern({".ts"})
PatTsMd == ExtPattern({".ts", ".md"})
PatMd == ExtPattern({".md"})
PatXyz == ExtPattern({".xyz"})
PatDist == DirPattern("dist")

IncludeChoices == {<<PatTs>>, <<PatTsMd, PatMd>>, <<PatXyz>>}
ExcludeChoices == {<<>>, <<PatDist>>}

DirW == P(<<>>, "w", "")
DirQ == P(<<>>, "q", "")
FileV == P(<<"w", "ab">>, "v", ".ts")

WorkspaceFolders == <<DirW>>

\* Folder lists and files getRelativeFilePath is exercised on: nested
\* folders in either order, a folder outside the file, and a file in a
\* sibling directory whose name extends a folder's name.
FolderChoices == {DirW, DirA, DirSub, DirQ}
RelativeFileChoices == {FileX, FileY, FileV}

\* --------------------------------------------------------------- matching
\* The path of file f relative to directory cwd, as glob walks it.
Under(cwd, f) == IsPrefix(Segments(cwd), f.dir)

RelDirs(cwd, f) == SubSeq(f.dir, Len(Segments(cwd)) + 1, Len(f.dir))

\* minimatch of a pattern against a file at relative directory rel.
Matches(pat, rel, f) ==
  IF pat.kind = "ext" THEN f.ext \in pat.exts
  ELSE \E i \in 1..Len(rel) : rel[i] = pat.name

Ignored(ignore, rel, f) == \E k \in 1..Len(ignore) : Matches(ignore[k], rel, f)

\* A glob call that drops its ignore option.
GlobNoIgnore(pattern, cwd, ignore) ==
  SelectSeq(FsListing,
            LAMBDA f : Under(cwd, f) /\ Matches(pattern, RelDirs(cwd, f), f))

\* glob(pattern, {cwd, ignore, absolute: true})
Glob(pattern, cwd, ignore) ==
  SelectSeq(FsListing,
            LAMBDA f : /\ Under(cwd, f)
                       /\ Matches(pattern, RelDirs(cwd, f), f)
                       /\ ~Ignored(ignore, RelDirs(cwd, f), f))

\* [...new Set(xs)]: the first occurrence of each element, in order.
RECURSIVE Unique(_)
Unique(xs) ==
  IF xs = <<>> THEN <<>>
  ELSE LET r == Unique(SubSeq(xs, 1, Len(xs) - 1))
           l == xs[Len(xs)]
       IN IF l \in Range(r) THEN r ELSE Append(r, l)

findMatchingFiles(baseDirectory, cfg) ==
  Unique(Flatten([k \in 1..Len(cfg.includePatterns) |->
                    Glob(cfg.includePatterns[k], baseDirectory, cfg.excludePatterns)]))

\* A loop that puts a file root through the include patterns as well.
RootFilesFiltered(uri, cfg) ==
  IF Stat(uri) = "dir" THEN findMatchingFiles(uri, cfg)
  ELSE IF \E n \in 1..Len(cfg.includePatterns) :
            Matches(cfg.includePatterns[n], <<>>, uri)
       THEN <<uri>> ELSE <<>>

\* What one iteration of the discovery loop adds to the list for a root.
RootFiles(uri, cfg) ==
  IF Stat(uri) = "dir" THEN findMatchingFiles(uri, cfg) ELSE <<uri>>

\* The list the discovery loop builds when it is not cancelled; a root that
\* cannot be stat'ed ends the loop.
RECURSIVE collectFrom(_, _, _)
collectFrom(roots, cfg, acc) ==
  IF roots = <<>> \/ Stat(Head(roots)) = "ENOENT" THEN acc
  ELSE collectFrom(Tail(roots), cfg, acc \o RootFiles(Head(roots), cfg))

collect(roots, cfg) == collectFrom(roots, cfg, <<>>)

\* ---------------------------------------------------------- content reader
Whitespace == {" ", "\n", "\t"}

RECURSIVE TrimStart(_)
TrimStart(t) ==
  IF t # <<>> /\ Head(t) \in Whitespace THEN TrimStart(Tail(t)) ELSE t

RECURSIVE TrimEnd(_)
TrimEnd(t) ==
  IF t # <<>> /\ t[Len(t)] \in Whitespace
  THEN TrimEnd(SubSeq(t, 1, Len(t) - 1)) ELSE t

\* String.prototype.trim
Trim(t) == TrimEnd(TrimStart(t))

\* path.relative(folder, file) with "/" separators: "a/x.ts", or
\* "../ab/v.ts" when the file is not below the folder.
Relative(folder, f) ==
  LET from == Segments(folder)
      k == CommonPrefixLen(from, f.dir)
      ups == [i \in 1..(Len(from) - k) |-> ".."]
      segs == ups \o SubSeq(f.dir, k + 1, Len(f.dir)) \o <<f.base>>
  IN Tail(JoinSegments(segs)) \o (IF f.ext = "" THEN <<>> ELSE <<f.ext>>)

\* The loop over the workspace folders: the first folder whose path the
\* file's path starts with.
RECURSIVE RelativeFrom(_, _)
RelativeFrom(folders, f) ==
  IF folders = <<>> THEN FsPath(f)
  ELSE IF StartsWith(f, Head(folders))
       THEN Relative(Head(folders), f)
       ELSE RelativeFrom(Tail(folders), f)

getRelativeFilePath(f) == RelativeFrom(WorkspaceFolders, f)

\* A reader that forgets to trim the content.
readFileContentUntrimmed(f, addComment) ==
  IF addComment
  THEN <<"// ">> \o getRelativeFilePath(f) \o <<"\n">> \o Content(f) \o <<"\n", "\n">>
  ELSE Content(f) \o <<"\n", "\n">>

\* The block of one file whose read succeeds.
readFileContentWithOptionalComment(f, addComment) ==
  IF addComment
  THEN <<"// ">> \o getRelativeFilePath(f) \o <<"\n">> \o Trim(Content(f)) \o <<"\n", "\n">>
  ELSE Trim(Content(f)) \o <<"\n", "\n">>

\* ------------------------------------------------- configuration sources
\* A JSON value as the settings carry it: its type, the items of an array,
\* the value of a boolean.
Undefined == [type |-> "undefined", items |-> <<>>, flag |-> FALSE]
Null == [type |-> "null", items |-> <<>>, flag |-> FALSE]
Array(items) == [type |-> "array", items |-> items, flag |-> FALSE]
Bool(b) == [type |-> "boolean", items |-> <<>>, flag |-> b]
Str == [type |-> "string", items |-> <<>>, flag |-> FALSE]

ConfigKeys == {"includePatterns", "excludePatterns", "addFilenameComments"}

NoKeys == [k \in ConfigKeys |-> Undefined]

\* The defaults package.json contributes.
DefaultConfig ==
  [includePatterns |-> Array(<<PatTsMd>>),
   excludePatterns |-> Array(<<PatDist>>),
   addFilenameComments |-> Bool(TRUE)]

\* .zipfilesrc: missing, not parseable, or a JSON object with any of the keys.
RcFileChoices ==
  {[status |-> "ENOENT", json |-> NoKeys], [status |-> "invalid", json |-> NoKeys]}
  \cup [status : {"ok"},
        json : [includePatterns : {Undefined, Null, Array(<<PatTs>>), Array(<<>>), Str},
                excludePatterns : {Undefined, Array(<<PatDist>>), Array(<<>>)},
                addFilenameComments : {Undefined, Bool(TRUE), Bool(FALSE), Str}]]

\* The user's settings of the zipFiles section.
UserSettingsChoices ==
  [includePatterns : {Undefined, Array(<<PatMd>>)},
   excludePatterns : {Undefined, Array(<<>>)},
   addFilenameComments : {Undefined, Bool(FALSE)}]

\* The parsed object, or null when the file is missing or does not parse.
readZipFilesRcConfig(rc) ==
  IF rc.status = "ok" THEN [null |-> FALSE, json |-> rc.json]
  ELSE [null |-> TRUE, json |-> NoKeys]

\* rcConfig?.key
OptionalMember(rcConfig, key) ==
  IF rcConfig.null THEN Undefined ELSE rcConfig.json[key]

\* a || b: the right operand for every falsy left operand.
CoalesceFalsy(a, b) ==
  IF a.type \in {"undefined", "null"} \/ (a.type = "boolean" /\ ~a.flag)
  THEN b ELSE a

\* a ?? b
Coalesce(a, b) == IF a.type \in {"undefined", "null"} THEN b ELSE a

\* vscodeConfig.get(key, defaultValue)
ConfigGet(settings, key, defaultValue) ==
  IF settings[key].type = "undefined" THEN defaultValue ELSE settings[key]

getZipFilesConfig(defaultConfig, vscodeConfig, rc) ==
  [k \in ConfigKeys |->
     Coalesce(OptionalMember(readZipFilesRcConfig(rc), k),
              ConfigGet(vscodeConfig, k, defaultConfig[k]))]

\* ------------------------------------------------------------------ state
VARIABLES
  selectedUris,       \* the roots the command was invoked with
  config,             \* the merged configuration of the run
  pc,                 \* "discover", "reading", "clipboard", "after", "done"
  rootIdx,            \* index of the next root of the discovery loop
  filePaths,          \* the list built by discovery and read by the aggregator
  files,              \* [cwd, found]: the latest findMatchingFiles call
  cancelRequested,    \* token.isCancellationRequested
  cancelAt,           \* where the run was when cancellation was requested
  readState,          \* per list entry: "pending", "done" or "failed"
  fileContents,       \* per list entry: the block its read resolved with
  outOfOrder,         \* some read settled while an earlier entry was pending
  callbackCalls,      \* per file: the calls of onFileProcessed with that file
  processedFiles,     \* the progress counter
  progress,           \* the progress.report calls, in order
  combinedCode,       \* [set, text]: the value combineFileContents returned
  clipboard,          \* the texts written to the clipboard, in order
  notifications,      \* the messages shown to the user, in order
  operationCompleted,
  outcome,            \* the exit the run took: "none" until it takes one
  metadata,           \* [files, fileTypes]: the figures of the success message
  rcFile,             \* the .zipfilesrc file of the workspace root
  userSettings,       \* the user's zipFiles settings
  mergedConfig,       \* the value getZipFilesConfig returned
  workspaceFolders,   \* vscode.workspace.workspaceFolders
  absoluteFilePath,   \* the argument of getRelativeFilePath
  relativePath        \* the value getRelativeFilePath returned

vars == <<selectedUris, config, pc, rootIdx, filePaths, files, cancelRequested,
          cancelAt, readState, fileContents, outOfOrder, callbackCalls,
          processedFiles, progress, combinedCode, clipboard, notifications,
          operationCompleted, outcome, metadata, rcFile, userSettings,
          mergedConfig, workspaceFolders, absoluteFilePath, relativePath>>

discoveryVars == <<rootIdx, filePaths, files>>
readVars == <<readState, fileContents, outOfOrder, callbackCalls>>
configVars == <<rcFile, userSettings, mergedConfig>>
relativeVars == <<workspaceFolders, absoluteFilePath, relativePath>>
inputVars == <<selectedUris, config, configVars, relativeVars>>

Error(m) == [level |-> "error", msg |-> m]
Info(m) == [level |-> "info", msg |-> m]

Report(m, n) == [message |-> m, n |-> n]

\* path.extname
ExtName(f) == f.ext

\* [...new Set(filePaths.map((file) => path.extname(file)))]
FileTypes(list) == Unique([i \in 1..Len(list) |-> ExtName(list[i])])

NoMetadata == [files |-> 0, fileTypes |-> <<>>]

NotCancelled == [pc |-> "none", settled |-> 0, root |-> 0]

Settled(rs) == Cardinality({i \in 1..Len(rs) : rs[i] # "pending"})

Init ==
  /\ selectedUris \in SeqsUpTo(RootChoices, MaxRoots)
  /\ config \in [includePatterns : IncludeChoices,
                 excludePatterns : ExcludeChoices,
                 addFilenameComments : BOOLEAN]
  /\ Len(collect(selectedUris, config)) <= MaxFiles
  /\ pc = "discover"
  /\ rootIdx = 1
  /\ filePaths = <<>>
  /\ files = [cwd |-> selectedUris[1], found |-> <<>>]
  /\ cancelRequested = FALSE
  /\ cancelAt = NotCancelled
  /\ readState = <<>>
  /\ fileContents = <<>>
  /\ outOfOrder = FALSE
  /\ callbackCalls = <<>>
  /\ processedFiles = 0
  /\ progress = <<>>
  /\ combinedCode = [set |-> FALSE, text |-> <<>>]
  /\ clipboard = <<>>
  /\ notifications = <<>>
  /\ operationCompleted = FALSE
  /\ outcome = "none"
  /\ metadata = NoMetadata
  /\ rcFile = [status |-> "ENOENT", json |-> NoKeys]
  /\ userSettings = NoKeys
  /\ mergedConfig = NoKeys
  /\ workspaceFolders = WorkspaceFolders
  /\ absoluteFilePath = FileX
  /\ relativePath = <<>>

\* ---------------------------------------------------------------- actions
\* The user presses Cancel on the progress notification.
Cancel ==
  /\ pc \in {"discover", "reading", "clipboard"}
  /\ ~cancelRequested
  /\ cancelRequested' = TRUE
  /\ cancelAt' = [pc |-> pc, settled |-> Settled(readState), root |-> rootIdx]
  /\ UNCHANGED <<inputVars, metadata, pc, discoveryVars, readVars, processedFiles,
                 progress, combinedCode, clipboard, notifications,
                 operationCompleted, outcome>>

\* Loop head of discovery with the token already cancelled: return.
CancelledBeforeRoot ==
  /\ pc = "discover"
  /\ rootIdx <= Len(selectedUris)
  /\ cancelRequested
  /\ pc' = "after"
  /\ outcome' = "cancelled"
  /\ UNCHANGED <<inputVars, metadata, discoveryVars, cancelRequested, cancelAt, readVars,
                 processedFiles, progress, combinedCode, clipboard,
                 notifications, operationCompleted>>

\* fs.stat rejects: the exception reaches the catch of the progress callback.
StatFails ==
  /\ pc = "discover"
  /\ rootIdx <= Len(selectedUris)
  /\ ~cancelRequested
  /\ Stat(selectedUris[rootIdx]) = "ENOENT"
  /\ notifications' = Append(notifications, Error("Error"))
  /\ pc' = "after"
  /\ outcome' = "failed"
  /\ UNCHANGED <<inputVars, metadata, discoveryVars, cancelRequested, cancelAt, readVars,
                 processedFiles, progress, combinedCode, clipboard,
                 operationCompleted>>

\* A loop iteration that does not look at the cancellation token.
ExpandRootIgnoringToken ==
  /\ pc = "discover"
  /\ rootIdx <= Len(selectedUris)
  /\ Stat(selectedUris[rootIdx]) # "ENOENT"
  /\ LET uri == selectedUris[rootIdx]
         found == findMatchingFiles(uri, config)
         isDir == Stat(uri) = "dir"
         next == filePaths \o RootFiles(uri, config)
     IN /\ filePaths' = next
        /\ files' = IF isDir THEN [cwd |-> uri, found |-> found] ELSE files
        /\ progress' = Append(progress, Report("Finding", Len(next)))
  /\ rootIdx' = rootIdx + 1
  /\ UNCHANGED <<inputVars, metadata, pc, cancelRequested, cancelAt, readVars,
                 processedFiles, combinedCode, clipboard, notifications,
                 operationCompleted, outcome>>

\* One iteration of the discovery loop over a root that exists.
ExpandRoot ==
  /\ pc = "discover"
  /\ rootIdx <= Len(selectedUris)
  /\ ~cancelRequested
  /\ Stat(selectedUris[rootIdx]) # "ENOENT"
  /\ LET uri == selectedUris[rootIdx]
         found == findMatchingFiles(uri, config)
         isDir == Stat(uri) = "dir"
         next == filePaths \o RootFiles(uri, config)
     IN /\ filePaths' = next
        /\ files' = IF isDir THEN [cwd |-> uri, found |-> found] ELSE files
        /\ progress' = Append(progress, Report("Finding", Len(next)))
  /\ rootIdx' = rootIdx + 1
  /\ UNCHANGED <<inputVars, metadata, pc, cancelRequested, cancelAt, readVars,
                 processedFiles, combinedCode, clipboard, notifications,
                 operationCompleted, outcome>>

\* An emptiness test that never fires.
IsEmptyListNever(list) == FALSE

\* The list is empty once every root was expanded.
IsEmptyList(list) == Len(list) = 0

\* An empty selection that returns without its message.
NoFilesFoundSilent ==
  /\ pc = "discover"
  /\ rootIdx > Len(selectedUris)
  /\ IsEmptyList(filePaths)
  /\ pc' = "after"
  /\ outcome' = "empty"
  /\ UNCHANGED <<inputVars, metadata, discoveryVars, cancelRequested, cancelAt, readVars,
                 processedFiles, progress, combinedCode, clipboard,
                 notifications, operationCompleted>>

NoFilesFound ==
  /\ pc = "discover"
  /\ rootIdx > Len(selectedUris)
  /\ IsEmptyList(filePaths)
  /\ notifications' = Append(notifications, Error("NoFilesFound"))
  /\ pc' = "after"
  /\ outcome' = "empty"
  /\ UNCHANGED <<inputVars, metadata, discoveryVars, cancelRequested, cancelAt, readVars,
                 processedFiles, progress, combinedCode, clipboard,
                 operationCompleted>>

\* combineFileContents starts one read per list entry.
DispatchReads ==
  /\ pc = "discover"
  /\ rootIdx > Len(selectedUris)
  /\ ~IsEmptyList(filePaths)
  /\ readState' = [i \in 1..Len(filePaths) |-> "pending"]
  /\ fileContents' = [i \in 1..Len(filePaths) |-> <<>>]
  /\ callbackCalls' = [f \in Range(filePaths) |-> 0]
  /\ outOfOrder' = FALSE
  /\ processedFiles' = 0
  /\ pc' = "reading"
  /\ UNCHANGED <<inputVars, metadata, discoveryVars, cancelRequested, cancelAt, progress,
                 combinedCode, clipboard, notifications, operationCompleted,
                 outcome>>

\* Results pushed in the order the reads finish.
ResultSlotByArrival(i, rs) == Settled(rs) + 1

\* The slot of the results array that the read of entry i fills.
ResultSlot(i, rs) == i

\* Promise.all rejects as soon as one of its promises has rejected.
Rejected(rs) == \E i \in 1..Len(rs) : rs[i] = "failed"

\* A join that waits for every promise to settle, as Promise.allSettled does.
FulfilledWhenSettled(rs) == \A i \in 1..Len(rs) : rs[i] # "pending"

\* A join that fulfils with the first promise to fulfil, as Promise.any does.
FulfilledOnFirst(rs) == \E i \in 1..Len(rs) : rs[i] = "done"

\* Promise.all fulfils once every promise has fulfilled.
Fulfilled(rs) == \A i \in 1..Len(rs) : rs[i] = "done"

\* A callback that always receives the head of the list.
CallbackFileFirst(i, list) == list[1]

\* The file onFileProcessed is called with when the read of entry i resolves.
CallbackFile(i, list) == list[i]

\* An increment of the value the counter had when the reads were dispatched.
ProcessedAfterLost(n) == 0 + 1

\* processedFiles++
ProcessedAfter(n) == n + 1

\* The read of entry i resolves: its block is stored and onFileProcessed runs.
ReadSucceeds(i) ==
  /\ pc # "discover"
  /\ i \in 1..Len(readState)
  /\ readState[i] = "pending"
  /\ readState' = [readState EXCEPT ![i] = "done"]
  /\ fileContents' =
       [fileContents EXCEPT ![ResultSlot(i, readState)] =
          readFileContentWithOptionalComment(filePaths[i], config.addFilenameComments)]
  /\ outOfOrder' = (outOfOrder \/ \E j \in 1..(i - 1) : readState[j] = "pending")
  /\ callbackCalls' = [callbackCalls EXCEPT ![CallbackFile(i, filePaths)] = @ + 1]
  /\ IF cancelRequested
     THEN UNCHANGED <<processedFiles, progress>>
     ELSE /\ processedFiles' = ProcessedAfter(processedFiles)
          /\ progress' = Append(progress, Report("Processing", processedFiles'))
  /\ UNCHANGED <<inputVars, metadata, pc, discoveryVars, cancelRequested, cancelAt,
                 combinedCode, clipboard, notifications, operationCompleted,
                 outcome>>

\* The read of entry i rejects: the file cannot be read.
ReadFails(i) ==
  /\ pc # "discover"
  /\ i \in 1..Len(readState)
  /\ readState[i] = "pending"
  /\ readState' = [readState EXCEPT ![i] = "failed"]
  /\ outOfOrder' = (outOfOrder \/ \E j \in 1..(i - 1) : readState[j] = "pending")
  /\ UNCHANGED <<inputVars, metadata, pc, discoveryVars, cancelRequested, cancelAt,
                 fileContents, callbackCalls, processedFiles, progress,
                 combinedCode, clipboard, notifications, operationCompleted,
                 outcome>>

\* Promise.all fulfilled: join, report the last step, start the clipboard write.
CombineReturns ==
  /\ pc = "reading"
  /\ Fulfilled(readState)
  /\ combinedCode' = [set |-> TRUE, text |-> Flatten(fileContents)]
  /\ progress' = Append(progress, Report("Copying", 0))
  /\ pc' = "clipboard"
  /\ UNCHANGED <<inputVars, metadata, discoveryVars, cancelRequested, cancelAt, readVars,
                 processedFiles, clipboard, notifications, operationCompleted,
                 outcome>>

\* Promise.all rejected: combineFileContents throws and the command's catch
\* shows the error.
CombineThrows ==
  /\ pc = "reading"
  /\ Rejected(readState)
  /\ notifications' = Append(notifications, Error("Error"))
  /\ pc' = "after"
  /\ outcome' = "failed"
  /\ UNCHANGED <<inputVars, metadata, discoveryVars, cancelRequested, cancelAt, readVars,
                 processedFiles, progress, combinedCode, clipboard,
                 operationCompleted>>

\* clipboard.writeText resolves: the success message is shown.
ClipboardWritten ==
  /\ pc = "clipboard"
  /\ clipboard' = Append(clipboard, combinedCode.text)
  /\ metadata' = [files |-> Len(filePaths), fileTypes |-> FileTypes(filePaths)]
  /\ notifications' = Append(notifications, Info("Copied"))
  /\ operationCompleted' = TRUE
  /\ pc' = "after"
  /\ outcome' = "success"
  /\ UNCHANGED <<inputVars, discoveryVars, cancelRequested, cancelAt, readVars,
                 processedFiles, progress, combinedCode>>

\* clipboard.writeText rejects: copyToClipboardAndNotifyUser shows the error
\* and returns normally.
ClipboardFails ==
  /\ pc = "clipboard"
  /\ notifications' = Append(notifications, Error("CopyFailed"))
  /\ operationCompleted' = TRUE
  /\ pc' = "after"
  /\ outcome' = "failed"
  /\ UNCHANGED <<inputVars, metadata, discoveryVars, cancelRequested, cancelAt, readVars,
                 processedFiles, progress, combinedCode, clipboard>>

\* withProgress has resolved: the closing message unless the run completed.
AfterProgress ==
  /\ pc = "after"
  /\ notifications' = IF operationCompleted THEN notifications
                      ELSE Append(notifications, Info("CancelledOrFailed"))
  /\ pc' = "done"
  /\ UNCHANGED <<inputVars, metadata, discoveryVars, cancelRequested, cancelAt, readVars,
                 processedFiles, progress, combinedCode, clipboard,
                 operationCompleted, outcome>>

Next ==
  \/ Cancel
  \/ CancelledBeforeRoot
  \/ StatFails
  \/ ExpandRoot
  \/ NoFilesFound
  \/ DispatchReads
  \/ \E i \in 1..MaxFiles : ReadSucceeds(i)
  \/ \E i \in 1..MaxFiles : ReadFails(i)
  \/ CombineReturns
  \/ CombineThrows
  \/ ClipboardWritten
  \/ ClipboardFails
  \/ AfterProgress

Spec == Init /\ [][Next]_vars

\* ------------------------------------------- configuration resolution
\* getZipFilesConfig on its own: the sources are drawn, the command has not
\* started its run.
RunNotStarted ==
  /\ selectedUris = <<FileX>>
  /\ config = [includePatterns |-> <<>>, excludePatterns |-> <<>>,
               addFilenameComments |-> FALSE]
  /\ rootIdx = 1
  /\ filePaths = <<>>
  /\ files = [cwd |-> FileX, found |-> <<>>]
  /\ cancelRequested = FALSE
  /\ cancelAt = NotCancelled
  /\ readState = <<>>
  /\ fileContents = <<>>
  /\ outOfOrder = FALSE
  /\ callbackCalls = <<>>
  /\ processedFiles = 0
  /\ progress = <<>>
  /\ combinedCode = [set |-> FALSE, text |-> <<>>]
  /\ clipboard = <<>>
  /\ notifications = <<>>
  /\ operationCompleted = FALSE
  /\ outcome = "none"
  /\ metadata = NoMetadata

InitConfig ==
  /\ rcFile \in RcFileChoices
  /\ userSettings \in UserSettingsChoices
  /\ mergedConfig = NoKeys
  /\ workspaceFolders = WorkspaceFolders
  /\ absoluteFilePath = FileX
  /\ relativePath = <<>>
  /\ pc = "config"
  /\ RunNotStarted

\* const config = await getZipFilesConfig()
ResolveConfig ==
  /\ pc = "config"
  /\ mergedConfig' = getZipFilesConfig(DefaultConfig, userSettings, rcFile)
  /\ pc' = "configured"
  /\ UNCHANGED <<selectedUris, config, rcFile, userSettings, relativeVars,
                 discoveryVars,
                 cancelRequested, cancelAt, readVars, processedFiles, progress,
                 combinedCode, clipboard, notifications, operationCompleted,
                 outcome, metadata>>

NextConfig == ResolveConfig

SpecConfig == InitConfig /\ [][NextConfig]_vars

\* ------------------------------------------------------ relative paths
\* getRelativeFilePath on its own, over folder lists and files.
InitRelative ==
  /\ workspaceFolders \in {<<>>} \cup SeqsUpTo(FolderChoices, MaxFolders)
  /\ absoluteFilePath \in RelativeFileChoices
  /\ relativePath = <<>>
  /\ rcFile = [status |-> "ENOENT", json |-> NoKeys]
  /\ userSettings = NoKeys
  /\ mergedConfig = NoKeys
  /\ pc = "relative"
  /\ RunNotStarted

\* const relativePath = getRelativeFilePath(filePath)
ComputeRelative ==
  /\ pc = "relative"
  /\ relativePath' = RelativeFrom(workspaceFolders, absoluteFilePath)
  /\ pc' = "relativized"
  /\ UNCHANGED <<selectedUris, config, configVars, workspaceFolders,
                 absoluteFilePath, discoveryVars, cancelRequested, cancelAt,
                 readVars, processedFiles, progress, combinedCode, clipboard,
                 notifications, operationCompleted, outcome, metadata>>

NextRelative == ComputeRelative

SpecRelative == InitRelative /\ [][NextRelative]_vars

TypeOK ==
  /\ pc \in {"config", "configured", "relative", "relativized", "discover",
            "reading", "clipboard", "after", "done"}
  /\ Len(filePaths) <= MaxFiles
  /\ outcome \in {"none", "success", "empty", "cancelled", "failed"}

\* ----------------------------------------------------------------- claims
Shown == Range(notifications)

AnyReadFailed == \E i \in 1..Len(readState) : readState[i] = "failed"

RECURSIVE BlocksInListOrder(_, _)
BlocksInListOrder(list, addComment) ==
  IF list = <<>> THEN <<>>
  ELSE readFileContentWithOptionalComment(Head(list), addComment)
         \o BlocksInListOrder(Tail(list), addComment)

\* C1: whatever the order in which the reads complete, the text returned by
\* combineFileContents is the concatenation of the per-file blocks in the
\* order of the file list.
C1_OutputInListOrder ==
  combinedCode.set =>
    combinedCode.text = BlocksInListOrder(filePaths, config.addFilenameComments)

C1_Witness ==
  /\ combinedCode.set
  /\ outOfOrder
  /\ Len(filePaths) >= 2
  /\ filePaths[1] # filePaths[2]

\* C2: when cancellation is requested while files are being read, after some
\* but not all reads have completed (and no read fails), the run ends
\* cancelled: nothing is written to the clipboard and no success message is
\* shown.
C2_CancelMidReadStopsRun ==
  (/\ cancelAt.pc = "reading"
   /\ 0 < cancelAt.settled
   /\ cancelAt.settled < Len(filePaths)
   /\ ~AnyReadFailed)
  => /\ clipboard = <<>>
     /\ Info("Copied") \notin Shown
     /\ (pc = "done" => outcome = "cancelled")

\* C3: when any read fails the aggregation fails as a whole:
\* combineFileContents returns no text, nothing is written to the clipboard,
\* no success message is shown and the run ends in the failed outcome.
C3_FailFast ==
  AnyReadFailed =>
    /\ ~combinedCode.set
    /\ clipboard = <<>>
    /\ Info("Copied") \notin Shown
    /\ (pc = "done" => outcome = "failed" /\ Error("Error") \in Shown)

C3_Witness ==
  /\ pc = "done"
  /\ AnyReadFailed
  /\ \E i \in 1..Len(readState) : readState[i] = "done"

\* C4: the file list passed to combineFileContents contains no absolute path
\* more than once.
C4_NoDuplicatePaths == Len(readState) > 0 => NoDuplicates(filePaths)

\* C5: selecting the same directory twice yields the same file list, in the
\* same order, as selecting it once.
C5_SameDirectoryTwice ==
  (/\ Len(selectedUris) = 2
   /\ selectedUris[1] = selectedUris[2]
   /\ Stat(selectedUris[1]) = "dir"
   /\ rootIdx > Len(selectedUris))
  => filePaths = collect(<<selectedUris[1]>>, config)

\* C6: when discovery over all roots yields zero files the run takes the
\* empty-selection exit: no read is dispatched, nothing is written to the
\* clipboard, no success message is shown and the no-files message is.
C6_EmptySelection ==
  (/\ pc # "discover"
   /\ rootIdx > Len(selectedUris)
   /\ filePaths = <<>>)
  => /\ outcome = "empty"
     /\ readState = <<>>
     /\ clipboard = <<>>
     /\ Info("Copied") \notin Shown
     /\ Error("NoFilesFound") \in Shown

C6_Witness ==
  /\ pc = "done"
  /\ outcome = "empty"
  /\ \E k \in 1..Len(selectedUris) : Stat(selectedUris[k]) = "dir"

\* The outcome a caller reads off the set of messages shown.
OutcomeShown(ns) ==
  IF ns = {Info("Copied")} THEN "success"
  ELSE IF ns = {Error("NoFilesFound"), Info("CancelledOrFailed")} THEN "empty"
  ELSE IF ns = {Info("CancelledOrFailed")} THEN "cancelled"
  ELSE IF ns \in {{Error("Error"), Info("CancelledOrFailed")}, {Error("CopyFailed")}}
       THEN "failed"
  ELSE "none"

\* C7: every finished run took exactly one of the exits success,
\* empty-selection, cancelled, failed, and the set of messages shown
\* determines which one.
C7_OutcomesDistinguishable ==
  pc = "done" =>
    /\ outcome \in {"success", "empty", "cancelled", "failed"}
    /\ OutcomeShown(Shown) = outcome

C7_Witness ==
  /\ pc = "done"
  /\ outcome = "cancelled"
  /\ filePaths # <<>>

\* C8: a root that does not exist does not abort the run: when the run ends
\* without cancellation, the files of every root that exists are in the list.
C8_MissingRootSkipped ==
  (/\ pc = "done"
   /\ cancelAt.pc = "none"
   /\ \E k \in 1..Len(selectedUris) : Stat(selectedUris[k]) = "ENOENT")
  => \A k \in 1..Len(selectedUris) :
       Stat(selectedUris[k]) # "ENOENT" =>
         Range(RootFiles(selectedUris[k], config)) \subseteq Range(filePaths)

\* Entries of the list that hold file f and whose read has resolved.
ResolvedEntries(f) ==
  {i \in 1..Len(readState) : filePaths[i] = f /\ readState[i] = "done"}

\* C9: onFileProcessed is called exactly once for each read that has
\* resolved, with the file of that read and not before it resolves; when all
\* N reads have resolved it was called N times.
C9_CallbackOncePerRead ==
  \A f \in DOMAIN callbackCalls :
    callbackCalls[f] = Cardinality(ResolvedEntries(f))

C9_Witness ==
  /\ pc = "clipboard"
  /\ Cardinality(Range(filePaths)) >= 2
  /\ \E i \in 1..Len(readState) : callbackCalls[filePaths[i]] = 1

\* C10: every path findMatchingFiles returns for a directory matches some
\* include pattern and no exclude pattern, relative to that directory.
C10_ExcludeWins ==
  \A k \in 1..Len(files.found) :
    LET f == files.found[k]
        rel == RelDirs(files.cwd, f)
    IN /\ \E n \in 1..Len(config.includePatterns) :
            Matches(config.includePatterns[n], rel, f)
       /\ \A n \in 1..Len(config.excludePatterns) :
            ~Matches(config.excludePatterns[n], rel, f)

C10_Witness ==
  /\ files.found # <<>>
  /\ \E f \in Range(FsListing) :
       /\ Under(files.cwd, f)
       /\ f \notin Range(files.found)
       /\ \E n \in 1..Len(config.includePatterns) :
            Matches(config.includePatterns[n], RelDirs(files.cwd, f), f)
       /\ \E n \in 1..Len(config.excludePatterns) :
            Matches(config.excludePatterns[n], RelDirs(files.cwd, f), f)

\* Number of entries of the list equal to f.
Occurrences(list, f) == Cardinality({i \in 1..Len(list) : list[i] = f})

\* C11: a root that is a plain file is put in the list directly, once per
\* time it was selected, whether or not it matches an include pattern; only
\* the files of directory roots are filtered.
C11_FileRootBypassesGlob ==
  \A f \in Range(selectedUris) :
    Stat(f) = "file" =>
      Occurrences(filePaths, f) >=
        Cardinality({k \in 1..(rootIdx - 1) : selectedUris[k] = f})

C11_Witness ==
  /\ pc = "clipboard"
  /\ \E f \in Range(filePaths) :
       /\ f \in Range(selectedUris)
       /\ Stat(f) = "file"
       /\ \A n \in 1..Len(config.includePatterns) :
            ~Matches(config.includePatterns[n], <<>>, f)

\* C14: when cancellation is requested while the discovery loop still has a
\* root to reach, that root and all later roots are not expanded, no read is
\* dispatched, nothing is written to the clipboard, and the run ends in the
\* cancelled outcome with only the closing message shown.
C14_CancelBeforeRoot ==
  (/\ cancelAt.pc = "discover"
   /\ cancelAt.root <= Len(selectedUris))
  => /\ rootIdx = cancelAt.root
     /\ filePaths = collect(SubSeq(selectedUris, 1, cancelAt.root - 1), config)
     /\ readState = <<>>
     /\ clipboard = <<>>
     /\ pc \in {"discover", "after", "done"}
     /\ (pc # "discover" => outcome = "cancelled")
     /\ (pc = "done" => Shown = {Info("CancelledOrFailed")})

C14_Witness ==
  /\ pc = "done"
  /\ cancelAt.pc = "discover"
  /\ cancelAt.root = 2
  /\ Len(selectedUris) = 2
  /\ filePaths # <<>>
  /\ Stat(selectedUris[2]) # "ENOENT"

\* String.prototype.toLowerCase on the extensions of the file system.
ToLowerCase(e) == IF e = ".TS" THEN ".ts" ELSE e

\* C15: the file types of the success message are the set of lower-cased
\* extensions of the listed files, each once: extensions that differ only in
\* letter case give a single entry.
C15_LowercaseFileTypes ==
  Info("Copied") \in Shown =>
    /\ Range(metadata.fileTypes) = {ToLowerCase(f.ext) : f \in Range(filePaths)}
    /\ \A i, j \in 1..Len(metadata.fileTypes) :
         i # j => ToLowerCase(metadata.fileTypes[i]) # ToLowerCase(metadata.fileTypes[j])

\* The first line of a text, without its newline, and the text after it.
RECURSIVE FirstLine(_)
FirstLine(t) ==
  IF t = <<>> \/ Head(t) = "\n" THEN <<>> ELSE <<Head(t)>> \o FirstLine(Tail(t))

AfterFirstLine(t) == SubSeq(t, Len(FirstLine(t)) + 2, Len(t))

EndsWithSeparator(t) ==
  Len(t) >= 2 /\ t[Len(t) - 1] = "\n" /\ t[Len(t)] = "\n"

StripSeparator(t) == SubSeq(t, 1, Len(t) - 2)

MarkerOf(f) == <<"// ">> \o getRelativeFilePath(f)

\* C16: every block a read resolved with ends with the separator "\n\n"; with
\* annotation on its first line is the marker "// <relative path>", with
\* annotation off it is not; removing the marker line (when annotation is on)
\* and the separator leaves exactly the trimmed content of the file, which
\* carries no whitespace of its own at either end.
C16_BlockRoundTrip ==
  \A i \in 1..Len(readState) :
    readState[i] = "done" =>
      LET f == filePaths[i]
          block == fileContents[i]
          body == IF config.addFilenameComments THEN AfterFirstLine(block) ELSE block
          inner == StripSeparator(body)
      IN /\ EndsWithSeparator(block)
         /\ EndsWithSeparator(body)
         /\ (FirstLine(block) = MarkerOf(f)) = config.addFilenameComments
         /\ inner = Trim(Content(f))
         /\ (inner # <<>> =>
               Head(inner) \notin Whitespace /\ inner[Len(inner)] \notin Whitespace)

C16_Witness ==
  /\ config.addFilenameComments
  /\ \E i, j \in 1..Len(readState) :
       /\ readState[i] = "done"
       /\ readState[j] = "done"
       /\ Trim(Content(filePaths[i])) = <<>>
       /\ Head(Content(filePaths[j])) = "// "

\* The processed counts carried by the "Processing files..." reports, in order.
ProcessingCounts ==
  LET reports == SelectSeq(progress, LAMBDA r : r.message = "Processing")
  IN [k \in 1..Len(reports) |-> reports[k].n]

ResolvedReads == Cardinality({i \in 1..Len(readState) : readState[i] = "done"})

\* C18: in a run with no read failure and no cancellation, whatever the order
\* in which the reads complete, the processed counts reported are exactly
\* 1, 2, ..., one per resolved read, the counter never exceeds the number of
\* files and equals it once the clipboard step has begun.
C18_ProgressCountsInOrder ==
  (/\ readState # <<>>
   /\ ~cancelRequested
   /\ ~AnyReadFailed)
  => /\ ProcessingCounts = [k \in 1..ResolvedReads |-> k]
     /\ processedFiles = ResolvedReads
     /\ processedFiles <= Len(filePaths)
     /\ (pc # "reading" => processedFiles = Len(filePaths))

C18_Witness ==
  /\ pc = "clipboard"
  /\ ~cancelRequested
  /\ outOfOrder
  /\ Len(filePaths) >= 3
  /\ processedFiles = Len(filePaths)

\* C19: the clipboard is written at most once, only when the list is
\* non-empty and every dispatched read has resolved, and the text written is
\* the combined text of the whole list.
C19_ClipboardWrittenOnceComplete ==
  /\ Len(clipboard) <= 1
  /\ clipboard # <<>> =>
       /\ filePaths # <<>>
       /\ Len(readState) = Len(filePaths)
       /\ \A i \in 1..Len(readState) : readState[i] = "done"
       /\ clipboard[1] = BlocksInListOrder(filePaths, config.addFilenameComments)

C19_Witness ==
  /\ pc = "done"
  /\ Len(clipboard) = 1
  /\ Len(filePaths) >= 2
  /\ Len(clipboard[1]) > Len(fileContents[1])

\* C20: once the run has ended (its closing step is done), no further
\* progress report is made and the progress counter no longer changes, even
\* when reads that were in flight complete afterwards.
C20_QuietAfterExit ==
  [][pc = "done" => (progress' = progress /\ processedFiles' = processedFiles)]_vars

\* The value of a key one level below the project file.
LowerLevel(k) ==
  IF userSettings[k].type # "undefined" THEN userSettings[k] ELSE DefaultConfig[k]

\* The shape a key must have.
WellShaped(k, v) ==
  IF k = "addFilenameComments" THEN v.type = "boolean" ELSE v.type = "array"

\* The project file parsed and holds key k.
RcHas(k) == rcFile.status = "ok" /\ rcFile.json[k].type # "undefined"

\* C12: per key, the merged value is the project file's value when the file
\* holds the key with a value of the right shape (false and the empty list
\* included), otherwise the user setting when there is one, otherwise the
\* default; a key absent from the project file never masks the lower levels.
C12_PerKeyPrecedence ==
  pc = "configured" =>
    \A k \in ConfigKeys :
      /\ (RcHas(k) /\ WellShaped(k, rcFile.json[k])) => mergedConfig[k] = rcFile.json[k]
      /\ ~RcHas(k) => mergedConfig[k] = LowerLevel(k)

C12_Witness ==
  /\ pc = "configured"
  /\ rcFile.status = "ok"
  /\ rcFile.json.addFilenameComments = Bool(FALSE)
  /\ rcFile.json.excludePatterns = Array(<<>>)
  /\ rcFile.json.includePatterns = Undefined
  /\ userSettings.includePatterns # Undefined
  /\ userSettings.excludePatterns = Undefined

\* C13: when the project file does not parse, or a key of it has the wrong
\* shape, the merged configuration is well formed and every affected key
\* carries the value of the next level.
C13_BadProjectFileRecovered ==
  pc = "configured" =>
    /\ \A k \in ConfigKeys : WellShaped(k, mergedConfig[k])
    /\ rcFile.status = "invalid" => \A k \in ConfigKeys : mergedConfig[k] = LowerLevel(k)
    /\ \A k \in ConfigKeys :
         (RcHas(k) /\ ~WellShaped(k, rcFile.json[k])) => mergedConfig[k] = LowerLevel(k)

\* The workspace folders that contain file f, by whole path segments.
Enclosing(folders, f) == {d \in Range(folders) : IsPrefix(Segments(d), f.dir)}

\* The path of f below a folder that contains it.
Below(folder, f) ==
  Tail(JoinSegments(SubSeq(Segments(f), Len(Segments(folder)) + 1, Len(Segments(f)))))
    \o <<f.ext>>

\* C17: getRelativeFilePath returns the path relative to the deepest
\* workspace folder that contains the file, whatever the order of the folder
\* list, and the absolute path unchanged when no folder contains it.
C17_NearestEnclosingFolder ==
  pc = "relativized" =>
    LET enclosing == Enclosing(workspaceFolders, absoluteFilePath)
    IN IF enclosing = {} THEN relativePath = FsPath(absoluteFilePath)
       ELSE \E d \in enclosing :
              /\ \A e \in enclosing : Len(Segments(e)) <= Len(Segments(d))
              /\ relativePath = Below(d, absoluteFilePath)

====
